---- MODULE Spec2Model ----
(***************************************************************************)
(* next-reads: the Overdrive availability check (check-overdrive edge      *)
(* function), the books / status_history tables with the log_status_change *)
(* trigger, and the title normalizer.                                      *)
(*                                                                         *)
(* A run of the edge function is modelled with one step per await point   *)
(* of the serve handler: the eligibility select, the catalog fetch (with   *)
(* the synchronous matching and status derivation that follow it), the     *)
(* books update, the notification send, and the rate-limit delay.          *)
(***************************************************************************)
EXTENDS Integers, Sequences, FiniteSets, TLC

VARIABLES
    books,           \* table books: id -> row
    status_history,  \* table status_history, in insertion order
    emails,          \* notification sends attempted through Resend, in order
    env,             \* RESEND_API_KEY / USER_EMAIL presence
    world,           \* which catalog the provider serves (see Answers)
    clock,           \* wall clock, read by new Date()
    rs,              \* per invocation of the edge function: its local state
    digest,          \* the invocation of send-weekly-summary: its local state
    norm             \* titles handed to normalizeTitle and what it returned

vars == <<books, status_history, emails, env, world, clock, rs, digest, norm>>

-----------------------------------------------------------------------------
(* Bounds *)

\* number of rows in table books
NumBooks == 2
\* longest items array the catalog provider answers with
MaxItems == 2

-----------------------------------------------------------------------------
(* Values *)

NULL == 0
Today == 1
Dates == {Today - 1, Today, Today + 1}

Statuses == {"not_released", "not_available", "available_to_hold",
             "on_hold", "available_to_checkout", "checked_out"}

EligibleStatuses == {"not_available", "available_to_hold", "on_hold"}

\* an overdrive_id stored by an earlier run: no id of a current result
StaleLink == MaxItems + 1

\* item.title when the JSON item has no title field
NoTitle == <<"undefined">>
\* f.isbn when a format has no isbn (dropped by filter(Boolean))
NoIsbn == NULL

-----------------------------------------------------------------------------
(* normalizeTitle *)

UpperOf == [c \in {"a", "n", "t", "h", "e", "x", "y"} |->
              CASE c = "a" -> "A" [] c = "n" -> "N" [] c = "t" -> "T"
                [] c = "h" -> "H" [] c = "e" -> "E" [] c = "x" -> "X"
                [] c = "y" -> "Y"]

LowerLetters == DOMAIN UpperOf
UpperLetters == {UpperOf[c] : c \in LowerLetters}
Digits == {"1"}
\* \s of the regular expressions
SpaceChars == {" ", "\t"}
\* \w of the regular expressions: ASCII letters, digits and the underscore
WordChars == LowerLetters \cup UpperLetters \cup Digits \cup {"_"}

LowerChar(c) ==
    IF c \in UpperLetters
    THEN CHOOSE l \in LowerLetters : UpperOf[l] = c
    ELSE c

\* .toLowerCase()
ToLowerCase(s) == [i \in 1..Len(s) |-> LowerChar(s[i])]

IsKept(c) == c \in WordChars \/ c \in SpaceChars

\* .replace(/[^\w\s]/g, '')
RemovePunct(s) == SelectSeq(s, IsKept)

\* .replace(/\s+/g, ' ')
RECURSIVE CollapseSpaces(_)
CollapseSpaces(s) ==
    IF s = <<>> THEN <<>>
    ELSE IF Head(s) \in SpaceChars
         THEN IF Len(s) > 1 /\ s[2] \in SpaceChars
              THEN CollapseSpaces(Tail(s))
              ELSE <<" ">> \o CollapseSpaces(Tail(s))
         ELSE <<Head(s)>> \o CollapseSpaces(Tail(s))

RECURSIVE DropSpaces(_)
DropSpaces(s) ==
    IF s # <<>> /\ Head(s) \in SpaceChars THEN DropSpaces(Tail(s)) ELSE s

StartsWithWord(s, w) ==
    /\ Len(s) > Len(w)
    /\ \A i \in 1..Len(w) : LowerChar(s[i]) = w[i]
    /\ s[Len(w) + 1] \in SpaceChars

\* .replace(/^(a|an|the)\s+/i, '')
RemoveArticle(s) ==
    IF StartsWithWord(s, <<"a">>) THEN DropSpaces(SubSeq(s, 2, Len(s)))
    ELSE IF StartsWithWord(s, <<"a", "n">>) THEN DropSpaces(SubSeq(s, 3, Len(s)))
    ELSE IF StartsWithWord(s, <<"t", "h", "e">>) THEN DropSpaces(SubSeq(s, 4, Len(s)))
    ELSE s

RECURSIVE DropTrailingSpaces(_)
DropTrailingSpaces(s) ==
    IF s # <<>> /\ s[Len(s)] \in SpaceChars
    THEN DropTrailingSpaces(SubSeq(s, 1, Len(s) - 1))
    ELSE s

\* .trim()
Trim(s) == DropTrailingSpaces(DropSpaces(s))

normalizeTitle(title) ==
    Trim(RemoveArticle(CollapseSpaces(RemovePunct(ToLowerCase(title)))))

-----------------------------------------------------------------------------
(* The matcher and the status derivation of the serve handler *)

\* item.formats?.map(f => f.isbn).filter(Boolean) || []
overdriveIsbns(item) == SelectSeq(item.formats, LAMBDA i : i # NoIsbn)

\* the predicate of the find() over all_isbns
IsbnHit(book, item) ==
    \E a \in 1..Len(book.all_isbns) : \E f \in 1..Len(overdriveIsbns(item)) :
        overdriveIsbns(item)[f] = book.all_isbns[a]

\* Array.prototype.find as an index: the least position in hits, 0 if none
FirstIndex(hits) ==
    IF hits = {} THEN 0 ELSE CHOOSE k \in hits : \A j \in hits : k <= j

isbnMatch(book, items) ==
    IF Len(book.all_isbns) > 0
    THEN FirstIndex({k \in 1..Len(items) : IsbnHit(book, items[k])})
    ELSE 0

\* mutant: the titles are compared as returned, without normalizeTitle
TitleHitRaw(book, item) ==
    item.title # NoTitle /\ item.title = book.title

TitleHit(book, item) ==
    item.title # NoTitle /\ normalizeTitle(item.title) = normalizeTitle(book.title)

titleMatch(book, items) ==
    FirstIndex({k \in 1..Len(items) : TitleHit(book, items[k])})

\* normalizeTitle(item.title) throws a TypeError on an item without a title,
\* when find() reaches that item before it has found a match
TitleScanThrows(book, items) ==
    \E k \in 1..Len(items) :
        /\ items[k].title = NoTitle
        /\ \A j \in 1..(k - 1) : ~TitleHit(book, items[j])

\* mutant: with no confident match the first result is taken as the match
MatchBookFirstResult(book, items) ==
    IF isbnMatch(book, items) # 0
    THEN [kind |-> "matched", idx |-> isbnMatch(book, items), strategy |-> "isbn"]
    ELSE IF TitleScanThrows(book, items)
    THEN [kind |-> "throw", idx |-> 0, strategy |-> "none"]
    ELSE IF titleMatch(book, items) # 0
    THEN [kind |-> "matched", idx |-> titleMatch(book, items), strategy |-> "title"]
    ELSE [kind |-> "matched", idx |-> 1, strategy |-> "none"]

\* mutant: the title is tried before the ISBNs
MatchBookTitleFirst(book, items) ==
    IF TitleScanThrows(book, items)
    THEN [kind |-> "throw", idx |-> 0, strategy |-> "none"]
    ELSE IF titleMatch(book, items) # 0
    THEN [kind |-> "matched", idx |-> titleMatch(book, items), strategy |-> "title"]
    ELSE IF isbnMatch(book, items) # 0
    THEN [kind |-> "matched", idx |-> isbnMatch(book, items), strategy |-> "isbn"]
    ELSE [kind |-> "unmatched", idx |-> 0, strategy |-> "none"]

\* lines 159-189: overdriveBook / matchFound, with the strategy that was logged
MatchBook(book, items) ==
    IF isbnMatch(book, items) # 0
    THEN [kind |-> "matched", idx |-> isbnMatch(book, items), strategy |-> "isbn"]
    ELSE IF TitleScanThrows(book, items)
    THEN [kind |-> "throw", idx |-> 0, strategy |-> "none"]
    ELSE IF titleMatch(book, items) # 0
    THEN [kind |-> "matched", idx |-> titleMatch(book, items), strategy |-> "title"]
    ELSE [kind |-> "unmatched", idx |-> 0, strategy |-> "none"]

\* mutant: isAvailable alone decides, the copy count is not looked at
DeriveStatusIgnoresCopies(overdriveBook, current) ==
    IF overdriveBook.isAvailable = TRUE THEN "available_to_checkout"
    ELSE IF overdriveBook.isHoldable = TRUE THEN "available_to_hold"
    ELSE "not_available"

\* mutant: a holdable title is taken for a hold that was placed
DeriveStatusOnHold(overdriveBook, current) ==
    IF overdriveBook.isAvailable = TRUE /\ overdriveBook.availableCopies > 0
    THEN "available_to_checkout"
    ELSE IF overdriveBook.isHoldable = TRUE THEN "on_hold"
    ELSE "not_available"

\* lines 231-245
DeriveStatus(overdriveBook, current) ==
    LET isAvailable == overdriveBook.isAvailable = TRUE
        availableCopies == overdriveBook.availableCopies
        isHoldable == overdriveBook.isHoldable = TRUE
    IN  IF isAvailable /\ availableCopies > 0 THEN "available_to_checkout"
        ELSE IF isHoldable THEN "available_to_hold"
        ELSE "not_available"

-----------------------------------------------------------------------------
(* Catalog responses *)

Item(t, f, a, c, h) ==
    [title |-> t, formats |-> f, isAvailable |-> a, availableCopies |-> c,
     isHoldable |-> h]

SeqsUpTo(S, n) == UNION {[1..k -> S] : k \in 0..n}

\* Answers to a search for "The x" (a book with ISBN 1): no entry; an entry
\* matching by title that can be borrowed; an entry matching by ISBN behind one
\* that matches nothing, holdable; an entry that matches nothing; an entry
\* matching by title that is available with no copy left; a malformed entry.
BatchWorld ==
    { <<>>,
      <<Item(<<"X", ",">>, <<>>, TRUE, 1, FALSE)>>,
      <<Item(<<"y">>, <<>>, TRUE, 1, TRUE), Item(<<"y">>, <<1>>, FALSE, 0, TRUE)>>,
      <<Item(<<"y">>, <<>>, TRUE, 1, TRUE)>>,
      <<Item(<<"x">>, <<>>, TRUE, 0, FALSE)>>,
      <<Item(NoTitle, <<>>, FALSE, 0, TRUE)>> }

\* every items array over entries that differ in title and ISBNs
MatchItems ==
    {Item(t, f, TRUE, 1, FALSE) :
        t \in {<<"X", ",">>, <<"y">>, NoTitle},
        f \in {<<>>, <<1>>, <<NoIsbn, 2>>}}

MatchWorld == SeqsUpTo(MatchItems, MaxItems)

\* every items array over entries that differ in availability
DeriveItems ==
    {Item(t, <<>>, a, c, h) :
        t \in {<<"x">>, <<"y">>}, a \in BOOLEAN, c \in {0, 1}, h \in BOOLEAN}

DeriveWorld == SeqsUpTo(DeriveItems, MaxItems)

Answers(w) ==
    CASE w = "batch" -> BatchWorld
      [] w = "match" -> MatchWorld
      [] w = "derive" -> DeriveWorld

\* the provider assigns each returned entry its own id
WithIds(s) ==
    [k \in 1..Len(s) |->
        [id |-> k, title |-> s[k].title, formats |-> s[k].formats,
         isAvailable |-> s[k].isAvailable,
         availableCopies |-> s[k].availableCopies,
         isHoldable |-> s[k].isHoldable]]

\* fetch() rejecting or json() failing; a non-2xx answer; a 2xx answer
Responses(w) ==
    {[kind |-> "throw", items |-> <<>>], [kind |-> "not_ok", items |-> <<>>]}
    \cup {[kind |-> "ok", items |-> WithIds(s)] : s \in w}

-----------------------------------------------------------------------------
(* Tables and the state of an invocation *)

\* the scheduled invocation and the on-demand one ("check now")
Invocations == {"cron", "manual"}

IdleRun ==
    [pc |-> "idle", batch |-> <<>>, i |-> 0,
     resp |-> [kind |-> "none", items |-> <<>>],
     dec |-> [kind |-> "none", idx |-> 0, strategy |-> "none"],
     branch |-> "none", newStatus |-> "", overdriveId |-> NULL,
     updateError |-> "none", queried |-> <<>>, results |-> <<>>, http |-> 0]

\* no title has been handed to normalizeTitle
NoTitles == [pc |-> "idle", title |-> <<>>, key |-> <<>>, again |-> <<>>,
             other |-> <<>>, otherKey |-> <<>>, differ |-> "none"]

\* send-weekly-summary before it is invoked
IdleDigest ==
    [pc |-> "idle", today |-> 0, queries |-> 0, upcomingBooks |-> <<>>,
     statusChanges |-> <<>>, changedBooks |-> {},
     statusChangesWithBooks |-> <<>>, sent |-> <<>>, skipped |-> FALSE,
     http |-> 0]

\* all_isbns is <<>> for a NULL or empty array: line 162 treats both alike
Row(t, isbns, d, st, link) ==
    [title |-> t, all_isbns |-> isbns, release_date |-> d,
     library_status |-> st, overdrive_id |-> link, last_checked_at |-> NULL]

\* select('*'): the rows as the client receives them, by id
Selected(tbl) ==
    [b \in 1..Len(tbl) |->
        [id |-> b, title |-> tbl[b].title, all_isbns |-> tbl[b].all_isbns,
         release_date |-> tbl[b].release_date,
         library_status |-> tbl[b].library_status,
         overdrive_id |-> tbl[b].overdrive_id,
         last_checked_at |-> tbl[b].last_checked_at]]

\* mutant: the release date is not filtered on
IsEligibleAnyDate(row) == row.library_status \in EligibleStatuses

\* .lte('release_date', today).in('library_status', [...])
IsEligible(row) ==
    row.release_date <= Today /\ row.library_status \in EligibleStatuses

EligibleBooks(tbl) == SelectSeq(Selected(tbl), IsEligible)

\* mutant: every update of a row is logged, changed status or not
log_every_update(hist, id, old, new) ==
    Append(hist, [book_id |-> id, old_status |-> old.library_status,
                  new_status |-> new.library_status, source |-> "system",
                  changed_at |-> clock])

\* mutant: the trigger writes the two statuses the wrong way round
log_status_change_swapped(hist, id, old, new) ==
    IF old.library_status # new.library_status
    THEN Append(hist, [book_id |-> id, old_status |-> new.library_status,
                       new_status |-> old.library_status, source |-> "system",
                       changed_at |-> clock])
    ELSE hist

\* log_status_change(), AFTER UPDATE ON books FOR EACH ROW
log_status_change(hist, id, old, new) ==
    IF old.library_status # new.library_status
    THEN Append(hist, [book_id |-> id, old_status |-> old.library_status,
                       new_status |-> new.library_status, source |-> "system",
                       changed_at |-> clock])
    ELSE hist

\* mutant: the recipient is not asked for
resendKeyOnly == env.RESEND_API_KEY

\* if (resendApiKey && userEmail)
resendConfigured == env.RESEND_API_KEY /\ env.USER_EMAIL

-----------------------------------------------------------------------------
(* The serve handler of check-overdrive, one action per await *)

Entry(book, outcome, old, new) ==
    [book |-> book.id, outcome |-> outcome, oldStatus |-> old, newStatus |-> new]

\* results.push(...) followed by `continue`: the next iteration starts at once
PushContinue(run, e) ==
    [run EXCEPT !.results = Append(@, e), !.i = @ + 1, !.pc = "loop"]

\* results.push(...) falling through to the delay at the end of the loop body
PushFallThrough(run, e) ==
    [run EXCEPT !.results = Append(@, e), !.pc = "delay"]

\* mutant: an invocation starts only while no other one is in progress
StartExclusive(r) ==
    /\ rs[r].pc = "idle"
    /\ \A q \in DOMAIN rs : q # r => rs[q].pc \in {"idle", "done", "failed"}
    /\ rs' = [rs EXCEPT ![r] =
                [@ EXCEPT !.pc = "loop", !.batch = EligibleBooks(books), !.i = 1]]
    /\ UNCHANGED <<books, status_history, emails, env, world, clock, digest, norm>>

\* lines 108-130: the eligibility select
Start(r) ==
    /\ rs[r].pc = "idle"
    /\ rs' = [rs EXCEPT ![r] =
                [@ EXCEPT !.pc = "loop", !.batch = EligibleBooks(books), !.i = 1]]
    /\ UNCHANGED <<books, status_history, emails, env, world, clock, digest, norm>>

\* lines 126-128 and 315-324: fetchError is thrown to the outer catch
StartFails(r) ==
    /\ rs[r].pc = "idle"
    /\ rs' = [rs EXCEPT ![r] = [@ EXCEPT !.pc = "failed", !.http = 500]]
    /\ UNCHANGED <<books, status_history, emails, env, world, clock, digest, norm>>

\* mutant: a hold the user placed is left as it is
DecideSparingHold(run, book, resp, dec) ==
    IF dec.kind = "throw"
    THEN PushFallThrough(run, Entry(book, "error", "", ""))
    ELSE IF book.library_status = "on_hold"
    THEN PushContinue(run, Entry(book, "no_change", "", ""))
    ELSE IF dec.kind = "unmatched"
    THEN IF book.library_status # "not_available"
         THEN [run EXCEPT !.pc = "update", !.branch = "no_match",
                          !.newStatus = "not_available", !.overdriveId = NULL]
         ELSE PushContinue(run, Entry(book, "no_change", "", ""))
    ELSE LET overdriveBook == resp.items[dec.idx]
             newStatus == DeriveStatus(overdriveBook, book.library_status)
         IN  [run EXCEPT !.pc = "update",
                         !.branch = IF newStatus # book.library_status
                                    THEN "changed" ELSE "refresh",
                         !.newStatus = newStatus,
                         !.overdriveId = overdriveBook.id]

\* mutant: the derived status is written and notified without comparing it
\* with the status read
DecideAlwaysWrites(run, book, resp, dec) ==
    IF dec.kind = "throw"
    THEN PushFallThrough(run, Entry(book, "error", "", ""))
    ELSE IF dec.kind = "unmatched"
    THEN IF book.library_status # "not_available"
         THEN [run EXCEPT !.pc = "update", !.branch = "no_match",
                          !.newStatus = "not_available", !.overdriveId = NULL]
         ELSE PushContinue(run, Entry(book, "no_change", "", ""))
    ELSE LET overdriveBook == resp.items[dec.idx]
             newStatus == DeriveStatus(overdriveBook, book.library_status)
         IN  [run EXCEPT !.pc = "update", !.branch = "changed",
                         !.newStatus = newStatus,
                         !.overdriveId = overdriveBook.id]

\* lines 191-229 and 231-292, up to the await of the update
Decide(run, book, resp, dec) ==
    IF dec.kind = "throw"
    THEN PushFallThrough(run, Entry(book, "error", "", ""))
    ELSE IF dec.kind = "unmatched"
    THEN IF book.library_status # "not_available"
         THEN [run EXCEPT !.pc = "update", !.branch = "no_match",
                          !.newStatus = "not_available", !.overdriveId = NULL]
         ELSE PushContinue(run, Entry(book, "no_change", "", ""))
    ELSE LET overdriveBook == resp.items[dec.idx]
             newStatus == DeriveStatus(overdriveBook, book.library_status)
         IN  [run EXCEPT !.pc = "update",
                         !.branch = IF newStatus # book.library_status
                                    THEN "changed" ELSE "refresh",
                         !.newStatus = newStatus,
                         !.overdriveId = overdriveBook.id]

\* mutant: a search answered with a non-success status is attempted again
AfterSearchRetrying(run, book, resp) ==
    LET asked == [run EXCEPT !.resp = resp, !.queried = Append(@, book.id),
                             !.dec = IdleRun.dec, !.branch = "none",
                             !.newStatus = "", !.overdriveId = NULL,
                             !.updateError = "none"]
    IN  IF resp.kind = "throw"
        THEN PushFallThrough(asked, Entry(book, "error", "", ""))
        ELSE IF resp.kind = "not_ok"
        THEN asked
        ELSE IF Len(resp.items) = 0
        THEN PushContinue(asked, Entry(book, "not_found_in_overdrive", "", ""))
        ELSE LET dec == MatchBook(book, resp.items)
             IN  Decide([asked EXCEPT !.dec = dec], book, resp, dec)

\* mutant: a failed search is rethrown to the outer catch and ends the run
AfterSearchAborting(run, book, resp) ==
    LET asked == [run EXCEPT !.resp = resp, !.queried = Append(@, book.id),
                             !.dec = IdleRun.dec, !.branch = "none",
                             !.newStatus = "", !.overdriveId = NULL,
                             !.updateError = "none"]
    IN  IF resp.kind = "throw"
        THEN PushFallThrough(asked, Entry(book, "error", "", ""))
        ELSE IF resp.kind = "not_ok"
        THEN [asked EXCEPT !.pc = "failed", !.http = 500]
        ELSE IF Len(resp.items) = 0
        THEN PushContinue(asked, Entry(book, "not_found_in_overdrive", "", ""))
        ELSE LET dec == MatchBook(book, resp.items)
             IN  Decide([asked EXCEPT !.dec = dec], book, resp, dec)

\* mutant: an empty items array is not told apart from an unmatched one
AfterSearchNoEmptyCheck(run, book, resp) ==
    LET asked == [run EXCEPT !.resp = resp, !.queried = Append(@, book.id),
                             !.dec = IdleRun.dec, !.branch = "none",
                             !.newStatus = "", !.overdriveId = NULL,
                             !.updateError = "none"]
    IN  IF resp.kind = "throw"
        THEN PushFallThrough(asked, Entry(book, "error", "", ""))
        ELSE IF resp.kind = "not_ok"
        THEN PushContinue(asked, Entry(book, "search_failed", "", ""))
        ELSE LET dec == MatchBook(book, resp.items)
             IN  Decide([asked EXCEPT !.dec = dec], book, resp, dec)

\* lines 135-153: the catalog fetch and what follows it synchronously
AfterSearch(run, book, resp) ==
    LET asked == [run EXCEPT !.resp = resp, !.queried = Append(@, book.id),
                             !.dec = IdleRun.dec, !.branch = "none",
                             !.newStatus = "", !.overdriveId = NULL,
                             !.updateError = "none"]
    IN  IF resp.kind = "throw"
        THEN PushFallThrough(asked, Entry(book, "error", "", ""))
        ELSE IF resp.kind = "not_ok"
        THEN PushContinue(asked, Entry(book, "search_failed", "", ""))
        ELSE IF Len(resp.items) = 0
        THEN PushContinue(asked, Entry(book, "not_found_in_overdrive", "", ""))
        ELSE LET dec == MatchBook(book, resp.items)
             IN  Decide([asked EXCEPT !.dec = dec], book, resp, dec)

Search(r) ==
    /\ rs[r].pc = "loop"
    /\ rs[r].i <= Len(rs[r].batch)
    /\ \E resp \in Responses(Answers(world)) :
          rs' = [rs EXCEPT ![r] = AfterSearch(@, @.batch[@.i], resp)]
    /\ UNCHANGED <<books, status_history, emails, env, world, clock, digest, norm>>

\* mutant: a change of status is written without the link
WrittenKeepingLink(row, run) ==
    IF run.branch = "refresh"
    THEN [row EXCEPT !.last_checked_at = clock, !.overdrive_id = run.overdriveId]
    ELSE [row EXCEPT !.library_status = run.newStatus,
                     !.last_checked_at = clock]

\* the row after .update({...}).eq('id', book.id)
Written(row, run) ==
    IF run.branch = "refresh"
    THEN [row EXCEPT !.last_checked_at = clock, !.overdrive_id = run.overdriveId]
    ELSE [row EXCEPT !.library_status = run.newStatus,
                     !.overdrive_id = run.overdriveId,
                     !.last_checked_at = clock]

\* mutant: a failed update is thrown to the outer catch and ends the run
AfterUpdateThrowing(run, book, ok) ==
    IF ~ok
    THEN [run EXCEPT !.pc = "failed", !.http = 500]
    ELSE IF run.branch = "refresh"
    THEN PushFallThrough(run, Entry(book, "no_change", "", ""))
    ELSE IF resendConfigured
    THEN [run EXCEPT !.pc = "notify"]
    ELSE IF run.branch = "no_match"
    THEN PushContinue(run, Entry(book, "status_changed", book.library_status, run.newStatus))
    ELSE PushFallThrough(run, Entry(book, "status_changed", book.library_status, run.newStatus))

\* what the handler does once the update has answered
AfterUpdate(run, book, ok) ==
    IF run.branch = "refresh"
    THEN PushFallThrough(run, Entry(book, "no_change", "", ""))
    ELSE IF ~ok
    THEN IF run.branch = "no_match"
         THEN PushContinue(run, Entry(book, "update_failed", "", ""))
         ELSE PushFallThrough(run, Entry(book, "update_failed", "", ""))
    ELSE IF resendConfigured
    THEN [run EXCEPT !.pc = "notify"]
    ELSE IF run.branch = "no_match"
    THEN PushContinue(run, Entry(book, "status_changed", book.library_status, run.newStatus))
    ELSE PushFallThrough(run, Entry(book, "status_changed", book.library_status, run.newStatus))

\* mutant: the update is addressed to the book after the one being processed
UpdateOkNextBook(r) ==
    /\ rs[r].pc = "update"
    /\ LET run == rs[r]
           book == run.batch[run.i]
           next == run.batch[IF run.i < Len(run.batch) THEN run.i + 1 ELSE run.i]
           new == Written(books[next.id], run)
       IN  /\ books' = [books EXCEPT ![next.id] = new]
           /\ status_history' =
                 log_status_change(status_history, next.id, books[next.id], new)
           /\ rs' = [rs EXCEPT ![r] =
                        AfterUpdate([run EXCEPT !.updateError = "no"], book, TRUE)]
    /\ UNCHANGED <<emails, env, world, clock, digest, norm>>

\* mutant: the update is conditional on the status read at the select: it
\* changes no row when the stored status is another one by now
UpdateOkIfUnchanged(r) ==
    /\ rs[r].pc = "update"
    /\ LET run == rs[r]
           book == run.batch[run.i]
           new == IF books[book.id].library_status = book.library_status
                  THEN Written(books[book.id], run)
                  ELSE books[book.id]
       IN  /\ books' = [books EXCEPT ![book.id] = new]
           /\ status_history' =
                 log_status_change(status_history, book.id, books[book.id], new)
           /\ rs' = [rs EXCEPT ![r] =
                        AfterUpdate([run EXCEPT !.updateError = "no"], book, TRUE)]
    /\ UNCHANGED <<emails, env, world, clock, digest, norm>>

\* lines 197-204, 249-256, 279-285: the update succeeds and the trigger runs
UpdateOk(r) ==
    /\ rs[r].pc = "update"
    /\ LET run == rs[r]
           book == run.batch[run.i]
           new == Written(books[book.id], run)
       IN  /\ books' = [books EXCEPT ![book.id] = new]
           /\ status_history' =
                 log_status_change(status_history, book.id, books[book.id], new)
           /\ rs' = [rs EXCEPT ![r] =
                        AfterUpdate([run EXCEPT !.updateError = "no"], book, TRUE)]
    /\ UNCHANGED <<emails, env, world, clock, digest, norm>>

\* the update answers with an error: no row is changed
UpdateFails(r) ==
    /\ rs[r].pc = "update"
    /\ LET run == rs[r]
           book == run.batch[run.i]
       IN  rs' = [rs EXCEPT ![r] =
                    AfterUpdate([run EXCEPT !.updateError = "yes"], book, FALSE)]
    /\ UNCHANGED <<books, status_history, emails, env, world, clock, digest, norm>>

\* mutant: a failed send is not swallowed: it reaches the catch of the loop body
NotifyFailureThrows(r) ==
    /\ rs[r].pc = "notify"
    /\ LET run == rs[r]
           book == run.batch[run.i]
           e == Entry(book, "status_changed", book.library_status, run.newStatus)
       IN  \E delivered \in BOOLEAN :
              /\ emails' = Append(emails,
                     [book_id |-> book.id, oldStatus |-> book.library_status,
                      newStatus |-> run.newStatus, delivered |-> delivered])
              /\ rs' = [rs EXCEPT ![r] =
                           IF ~delivered
                           THEN PushFallThrough(run, Entry(book, "error", "", ""))
                           ELSE IF run.branch = "no_match"
                           THEN PushContinue(run, e) ELSE PushFallThrough(run, e)]
    /\ UNCHANGED <<books, status_history, env, world, clock, digest, norm>>

\* lines 212-222 and 264-275 with sendStatusChangeEmail (lines 33-100)
Notify(r) ==
    /\ rs[r].pc = "notify"
    /\ LET run == rs[r]
           book == run.batch[run.i]
           e == Entry(book, "status_changed", book.library_status, run.newStatus)
       IN  /\ \E delivered \in BOOLEAN :
                 emails' = Append(emails,
                     [book_id |-> book.id, oldStatus |-> book.library_status,
                      newStatus |-> run.newStatus, delivered |-> delivered])
           /\ rs' = [rs EXCEPT ![r] =
                        IF run.branch = "no_match"
                        THEN PushContinue(run, e) ELSE PushFallThrough(run, e)]
    /\ UNCHANGED <<books, status_history, env, world, clock, digest, norm>>

\* lines 299-300
Delay(r) ==
    /\ rs[r].pc = "delay"
    /\ rs' = [rs EXCEPT ![r] = [@ EXCEPT !.i = @ + 1, !.pc = "loop"]]
    /\ clock' = clock + 1
    /\ UNCHANGED <<books, status_history, emails, env, world, digest, norm>>

\* lines 302-307: the body of the response
Report(run) ==
    [success |-> TRUE, checked |-> Len(run.batch), results |-> run.results]

\* lines 303-313
Finish(r) ==
    /\ rs[r].pc = "loop"
    /\ rs[r].i > Len(rs[r].batch)
    /\ rs' = [rs EXCEPT ![r] = [@ EXCEPT !.pc = "done", !.http = 200]]
    /\ UNCHANGED <<books, status_history, emails, env, world, clock, digest, norm>>

Step(r) ==
    \/ Start(r)
    \/ StartFails(r)
    \/ Search(r)
    \/ UpdateOk(r)
    \/ UpdateFails(r)
    \/ Notify(r)
    \/ Delay(r)
    \/ Finish(r)

-----------------------------------------------------------------------------
(* The serve handler of send-weekly-summary, one action per await *)

\* Time is scaled: the precision a JavaScript Date keeps (a millisecond) is one
\* day of the model, and the database keeps Resolution instants within it
\* (TIMESTAMPTZ has microseconds).
Week == 7
Resolution == 2

\* new Date(string): what is finer than the Date's precision is dropped
JsDate(t) == t \div Resolution

\* mutant: only the API key is asked for
digestConfiguredKeyOnly == env.RESEND_API_KEY

\* the negation of line 44: !resendApiKey || !userEmail
digestConfigured == env.RESEND_API_KEY /\ env.USER_EMAIL

\* .gte('release_date', today).lte('release_date', oneWeekFromNow)
IsUpcoming(row) ==
    row.release_date >= Today /\ row.release_date <= Today + Week

\* .order('release_date', { ascending: true })
RECURSIVE OrderByRelease(_)
OrderByRelease(s) ==
    IF s = <<>> THEN <<>>
    ELSE LET m == CHOOSE k \in 1..Len(s) :
                     /\ \A j \in 1..Len(s) : s[k].release_date <= s[j].release_date
                     /\ \A j \in 1..(k - 1) : s[j].release_date > s[k].release_date
         IN  <<s[m]>> \o OrderByRelease(SubSeq(s, 1, m - 1) \o SubSeq(s, m + 1, Len(s)))

UpcomingBooks(tbl) == OrderByRelease(SelectSeq(Selected(tbl), IsUpcoming))

\* oneWeekAgo.toISOString(), as an instant of the database
oneWeekAgo(today) == (JsDate(today) - Week) * Resolution

\* select('book_id, old_status, new_status, changed_at')
ChangeRow(h) ==
    [book_id |-> h.book_id, old_status |-> h.old_status,
     new_status |-> h.new_status, changed_at |-> h.changed_at]

\* .gte('changed_at', oneWeekAgo): the rows of the window, in insertion order
WindowRows(hist, today) ==
    LET w == SelectSeq(hist, LAMBDA h : h.changed_at >= oneWeekAgo(today))
    IN  [k \in 1..Len(w) |-> ChangeRow(w[k])]

Reordered(w, q) == [k \in 1..Len(w) |-> w[q[k]]]

\* .order('changed_at', { ascending: false }): every order of the rows that is
\* descending in changed_at (rows of one instant come in either order)
DescendingAnswers(w) ==
    {Reordered(w, q) : q \in
        {q \in Permutations(1..Len(w)) :
            \A i \in 1..Len(w) : \A j \in (i + 1)..Len(w) :
                w[q[i]].changed_at >= w[q[j]].changed_at}}

\* [...new Set(statusChanges.map(sc => sc.book_id))]
bookIds(statusChanges) ==
    {statusChanges[k].book_id : k \in 1..Len(statusChanges)}

\* mutant: the first row seen of a book is kept, whatever comes after it
ReduceStepKeepFirst(acc, sc) ==
    IF \E k \in 1..Len(acc) : acc[k].book_id = sc.book_id
    THEN acc
    ELSE Append(acc, sc)

\* lines 98-104: one step of the reduce
ReduceStep(acc, sc) ==
    LET found == {k \in 1..Len(acc) : acc[k].book_id = sc.book_id}
    IN  IF found = {}
           \/ JsDate(sc.changed_at) > JsDate(acc[FirstIndex(found)].changed_at)
        THEN Append(SelectSeq(acc, LAMBDA item : item.book_id # sc.book_id), sc)
        ELSE acc

RECURSIVE Reduce(_, _)
Reduce(s, acc) ==
    IF s = <<>> THEN acc ELSE Reduce(Tail(s), ReduceStep(acc, Head(s)))

\* lines 92-106: map, filter(sc => sc.book), reduce
statusChangesWithBooks(statusChanges, changedBooks) ==
    Reduce(SelectSeq(statusChanges, LAMBDA sc : sc.book_id \in changedBooks), <<>>)

\* mutant: an empty digest is one that lacks either section
NothingToReportEither(upcomingBooks, changes) ==
    Len(upcomingBooks) = 0 \/ Len(changes) = 0

\* lines 108-109
NothingToReport(upcomingBooks, changes) ==
    Len(upcomingBooks) = 0 /\ Len(changes) = 0

\* the consolidated email: the two sections of the HTML
Payload(upcomingBooks, changes) ==
    [upcoming |-> [k \in 1..Len(upcomingBooks) |-> upcomingBooks[k].id],
     changes |-> [k \in 1..Len(changes) |->
                     [book_id |-> changes[k].book_id,
                      old_status |-> changes[k].old_status,
                      new_status |-> changes[k].new_status]]]

DigestFailed(d) == [d EXCEPT !.pc = "failed", !.http = 500]

\* lines 34-53: the configuration check and the date ranges
DigestStart ==
    /\ digest.pc = "idle"
    /\ digest' = IF digestConfigured
                 THEN [digest EXCEPT !.pc = "upcoming", !.today = clock]
                 ELSE DigestFailed(digest)
    /\ UNCHANGED <<books, status_history, emails, env, world, clock, rs, norm>>

\* lines 55-65: query 1
DigestUpcoming ==
    /\ digest.pc = "upcoming"
    /\ \E ok \in BOOLEAN :
          digest' =
             IF ok
             THEN [digest EXCEPT !.pc = "changes", !.queries = @ + 1,
                                 !.upcomingBooks = UpcomingBooks(books)]
             ELSE DigestFailed([digest EXCEPT !.queries = @ + 1])
    /\ UNCHANGED <<books, status_history, emails, env, world, clock, rs, norm>>

\* lines 67-76: query 2
DigestChanges ==
    /\ digest.pc = "changes"
    /\ \/ \E answer \in DescendingAnswers(WindowRows(status_history, digest.today)) :
             digest' = [digest EXCEPT !.pc = "books", !.queries = @ + 1,
                                      !.statusChanges = answer]
       \/ digest' = DigestFailed([digest EXCEPT !.queries = @ + 1])
    /\ UNCHANGED <<books, status_history, emails, env, world, clock, rs, norm>>

\* what follows query 3 synchronously: lines 89-120
AfterBooks(d, changedBooks) ==
    LET changes == statusChangesWithBooks(d.statusChanges, changedBooks)
        joined == [d EXCEPT !.changedBooks = changedBooks,
                            !.statusChangesWithBooks = changes]
    IN  IF NothingToReport(d.upcomingBooks, changes)
        THEN [joined EXCEPT !.pc = "done", !.skipped = TRUE, !.http = 200]
        ELSE [joined EXCEPT !.pc = "send"]

\* lines 78-87: query 3; a book deleted since query 2 is not among its rows
DigestBooks ==
    /\ digest.pc = "books"
    /\ \/ \E gone \in SUBSET bookIds(digest.statusChanges) :
             digest' = AfterBooks([digest EXCEPT !.queries = @ + 1],
                                  bookIds(digest.statusChanges) \ gone)
       \/ digest' = DigestFailed([digest EXCEPT !.queries = @ + 1])
    /\ UNCHANGED <<books, status_history, emails, env, world, clock, rs, norm>>

\* lines 191-236: the send; Resend answers 2xx with or without a JSON body,
\* answers non-2xx, or the fetch rejects
DigestSend ==
    /\ digest.pc = "send"
    /\ \E outcome \in {"ok", "ok_no_json", "not_ok", "throw"} :
          LET sending ==
                 [digest EXCEPT !.sent = Append(@,
                     [payload |-> Payload(digest.upcomingBooks,
                                          digest.statusChangesWithBooks),
                      outcome |-> outcome])]
          IN  digest' = IF outcome = "ok"
                        THEN [sending EXCEPT !.pc = "done", !.http = 200]
                        ELSE DigestFailed(sending)
    /\ UNCHANGED <<books, status_history, emails, env, world, clock, rs, norm>>

DigestStep ==
    \/ DigestStart
    \/ DigestUpcoming
    \/ DigestChanges
    \/ DigestBooks
    \/ DigestSend

-----------------------------------------------------------------------------
(* Specifications *)

TheX == <<"T", "h", "e", " ", "x">>

Envs == [RESEND_API_KEY : BOOLEAN, USER_EMAIL : BOOLEAN]

InitWith(n, isbnSets, links, dates, w) ==
    /\ books \in [1..n ->
          {Row(TheX, i, d, st, l) : i \in isbnSets, d \in dates,
                                    st \in Statuses, l \in links}]
    /\ status_history = <<>>
    /\ emails = <<>>
    /\ env \in Envs
    /\ world = w
    /\ clock = 1
    /\ rs = [r \in Invocations |-> IdleRun]
    /\ digest = IdleDigest
    /\ norm = NoTitles

Next == Step("cron")

\* a batch of books checked by the scheduled invocation
Init == InitWith(NumBooks, {<<1>>}, {StaleLink}, {Today, Today + 1}, "batch")

Spec == Init /\ [][Next]_vars

\* one book against every items array over entries that differ in title and ISBNs
InitMatch ==
    InitWith(1, {<<>>, <<1>>, <<2, 1>>}, {NULL, StaleLink}, {Today}, "match")

SpecMatch == InitMatch /\ [][Next]_vars

\* one book against every items array over entries that differ in availability
InitDerive == InitWith(1, {<<>>}, {NULL}, Dates, "derive")

SpecDerive == InitDerive /\ [][Next]_vars

\* Two invocations in succession against a catalog that answers every query
\* for a book the same way, with no failure of a query, an update or the
\* eligibility select. In this specification world is that catalog: the
\* response to the search for each book.
RerunAnswers ==
    {a \in BatchWorld : \A k \in 1..Len(a) : a[k].title # NoTitle}

FixedCatalogs(n) ==
    [1..n -> {[kind |-> "ok", items |-> WithIds(a)] : a \in RerunAnswers}]

InitRerun ==
    /\ books \in [1..NumBooks ->
          {Row(TheX, <<1>>, Today, st, StaleLink) : st \in Statuses}]
    /\ status_history = <<>>
    /\ emails = <<>>
    /\ env = [RESEND_API_KEY |-> TRUE, USER_EMAIL |-> TRUE]
    /\ world \in FixedCatalogs(NumBooks)
    /\ clock = 1
    /\ rs = [r \in Invocations |-> IdleRun]
    /\ digest = IdleDigest
    /\ norm = NoTitles

\* an invocation starts when no other one is running
Begin(r) ==
    /\ \A q \in Invocations \ {r} : rs[q].pc \in {"idle", "done"}
    /\ Start(r)

\* the catalog fetch answered by the fixed catalog
SearchFixed(r) ==
    /\ rs[r].pc = "loop"
    /\ rs[r].i <= Len(rs[r].batch)
    /\ rs' = [rs EXCEPT ![r] =
                 AfterSearch(@, @.batch[@.i], world[@.batch[@.i].id])]
    /\ UNCHANGED <<books, status_history, emails, env, world, clock, digest, norm>>

StepRerun(r) ==
    \/ Begin(r)
    \/ SearchFixed(r)
    \/ UpdateOk(r)
    \/ Notify(r)
    \/ Delay(r)
    \/ Finish(r)

NextRerun == \E r \in Invocations : StepRerun(r)

SpecRerun == InitRerun /\ [][NextRerun]_vars

\* The weekly digest. The clock stands late enough for a week of history.
DigestNow == (Week + 1) * Resolution + 1

\* release dates just before the window of upcoming releases and at its end
DigestDates == {Today - 1, Today + Week}

\* instants of past changes: just before the window of status changes, at its
\* start, and two instants that a Date does not tell apart
ChangeTimes ==
    {oneWeekAgo(DigestNow) - 1, oneWeekAgo(DigestNow),
     (JsDate(DigestNow) - 1) * Resolution, (JsDate(DigestNow) - 1) * Resolution + 1}

\* the changes the catalog check makes to a status it may write
StatusCycle ==
    [st \in {"not_available", "available_to_hold", "available_to_checkout"} |->
        CASE st = "not_available" -> "available_to_hold"
          [] st = "available_to_hold" -> "available_to_checkout"
          [] st = "available_to_checkout" -> "not_available"]

\* the status of book b after the changes logged in hist
StatusAfter(hist, b) ==
    LET own == SelectSeq(hist, LAMBDA h : h.book_id = b)
    IN  IF own = <<>> THEN "not_available" ELSE own[Len(own)].new_status

\* status_history as the trigger wrote it over past changes of book stamps[k].book
\* at instant stamps[k].at
RECURSIVE BuildHistory(_)
BuildHistory(stamps) ==
    IF stamps = <<>> THEN <<>>
    ELSE LET before == BuildHistory(SubSeq(stamps, 1, Len(stamps) - 1))
             last == stamps[Len(stamps)]
             old == StatusAfter(before, last.book)
         IN  Append(before,
                 [book_id |-> last.book, old_status |-> old,
                  new_status |-> StatusCycle[old], source |-> "system",
                  changed_at |-> last.at])

\* at most one past change per book on average, in the order they happened
StampSeqs ==
    {st \in SeqsUpTo([book : 1..NumBooks, at : ChangeTimes], NumBooks) :
        \A k \in 1..(Len(st) - 1) : st[k].at <= st[k + 1].at}

InitTables ==
    \E stamps \in StampSeqs : \E dates \in [1..NumBooks -> DigestDates] :
        /\ status_history = BuildHistory(stamps)
        /\ books = [b \in 1..NumBooks |->
                      Row(TheX, <<>>, dates[b],
                          StatusAfter(BuildHistory(stamps), b), NULL)]
        /\ emails = <<>>
        /\ world = "batch"
        /\ clock = DigestNow
        /\ rs = [r \in Invocations |-> IdleRun]

InitDigest ==
    /\ InitTables
    /\ env \in Envs
    /\ digest = IdleDigest
    /\ norm = NoTitles

SpecDigest == InitDigest /\ [][DigestStep]_vars

\* The join and the deduplication of the digest, applied to the rows of the
\* window handed over in every order.
AnyOrderAnswers(w) == {Reordered(w, q) : q \in Permutations(1..Len(w))}

InitDedup ==
    /\ InitTables
    /\ env = [RESEND_API_KEY |-> TRUE, USER_EMAIL |-> TRUE]
    /\ \E answer \in AnyOrderAnswers(WindowRows(status_history, DigestNow)) :
          digest = [IdleDigest EXCEPT !.pc = "books", !.today = DigestNow,
                                      !.queries = 2,
                                      !.upcomingBooks = UpcomingBooks(books),
                                      !.statusChanges = answer]
    /\ norm = NoTitles

NextDedup == DigestBooks \/ DigestSend

SpecDedup == InitDedup /\ [][NextDedup]_vars

\* normalizeTitle applied to every title up to MaxLen characters over letters
\* in both cases, the space, a punctuation mark and the underscore: to the
\* title of a book, to its own result, and to the title of a catalog entry
\* that differs from the book's by a leading article, by letter case or by
\* punctuation marks left out.
MaxLen == 4

NormAlphabet == {"a", "X", " ", ",", "_"}

ArticleWords == {<<"a">>, <<"a", "n">>, <<"t", "h", "e">>}

CaseForms(c) ==
    IF c \in LowerLetters THEN {c, UpperOf[c]}
    ELSE IF c \in UpperLetters THEN {c, LowerChar(c)}
    ELSE {c}

\* the strings that differ from s in letter case only
RECURSIVE AnyCase(_)
AnyCase(s) ==
    IF s = <<>> THEN {<<>>}
    ELSE {<<c>> \o r : c \in CaseForms(Head(s)), r \in AnyCase(Tail(s))}

\* an article in any letter case and a space put before t
WithArticle(t) ==
    {a \o <<" ">> \o t : a \in UNION {AnyCase(w) : w \in ArticleWords}}

\* the punctuation marks of the alphabet
Punctuation == NormAlphabet \ (WordChars \cup SpaceChars)

\* t with some of its punctuation marks left out
RECURSIVE Unpunctuated(_)
Unpunctuated(t) ==
    IF t = <<>> THEN {<<>>}
    ELSE LET rest == Unpunctuated(Tail(t))
         IN  {<<Head(t)>> \o r : r \in rest}
                 \cup (IF Head(t) \in Punctuation THEN rest ELSE {})

TitleVariants(d, t) ==
    CASE d = "article" -> WithArticle(t)
      [] d = "case" -> AnyCase(t) \ {t}
      [] d = "punctuation" -> Unpunctuated(t) \ {t}

InitNormalize ==
    /\ books = <<>>
    /\ status_history = <<>>
    /\ emails = <<>>
    /\ env = [RESEND_API_KEY |-> TRUE, USER_EMAIL |-> TRUE]
    /\ world = "batch"
    /\ clock = 1
    /\ rs = [r \in Invocations |-> IdleRun]
    /\ digest = IdleDigest
    /\ norm \in {[NoTitles EXCEPT !.title = t] : t \in SeqsUpTo(NormAlphabet, MaxLen)}

\* normalizeTitle(book.title)
NormalizeBookTitle ==
    /\ norm.pc = "idle"
    /\ norm' = [norm EXCEPT !.pc = "once", !.key = normalizeTitle(norm.title)]
    /\ UNCHANGED <<books, status_history, emails, env, world, clock, rs, digest>>

\* normalizeTitle applied to a string it returned
NormalizeKey ==
    /\ norm.pc = "once"
    /\ norm' = [norm EXCEPT !.pc = "twice", !.again = normalizeTitle(norm.key)]
    /\ UNCHANGED <<books, status_history, emails, env, world, clock, rs, digest>>

\* normalizeTitle(item.title), for an entry titled almost as the book
NormalizeItemTitle ==
    /\ norm.pc = "twice"
    /\ \E d \in {"article", "case", "punctuation"} :
          \E o \in TitleVariants(d, norm.title) :
              norm' = [norm EXCEPT !.pc = "compared", !.differ = d, !.other = o,
                                   !.otherKey = normalizeTitle(o)]
    /\ UNCHANGED <<books, status_history, emails, env, world, clock, rs, digest>>

NextNormalize == NormalizeBookTitle \/ NormalizeKey \/ NormalizeItemTitle

SpecNormalize == InitNormalize /\ [][NextNormalize]_vars

\* Two invocations at once on one book: the scheduled one and a manual one,
\* their steps interleaved in every way.
InitOverlap == InitWith(1, {<<1>>}, {StaleLink}, {Today}, "batch")

NextOverlap == \E r \in Invocations : Step(r)

SpecOverlap == InitOverlap /\ [][NextOverlap]_vars

\* A scheduled invocation and the next one after it, against a catalog whose
\* content stays the same while single queries and single sends may fail.
SearchFlaky(r) ==
    /\ rs[r].pc = "loop"
    /\ rs[r].i <= Len(rs[r].batch)
    /\ \E resp \in {world[rs[r].batch[rs[r].i].id],
                    [kind |-> "throw", items |-> <<>>],
                    [kind |-> "not_ok", items |-> <<>>]} :
          rs' = [rs EXCEPT ![r] = AfterSearch(@, @.batch[@.i], resp)]
    /\ UNCHANGED <<books, status_history, emails, env, world, clock, digest, norm>>

\* the next invocation starts after the first one answered
StartNext ==
    /\ rs["cron"].pc = "done"
    /\ Start("manual")

RestRetry(r) ==
    \/ SearchFlaky(r)
    \/ UpdateOk(r)
    \/ Notify(r)
    \/ Delay(r)
    \/ Finish(r)

NextRetry ==
    \/ Start("cron")
    \/ StartNext
    \/ \E r \in Invocations : RestRetry(r)

SpecRetry == InitRerun /\ [][NextRetry]_vars

\* Invocations of the catalog check in succession on one book whose status an
\* authenticated user edits by hand at any moment: an UPDATE of
\* books.library_status, on which the trigger fires as on any other. The edits
\* stop when status_history holds MaxRecords records.
MaxRecords == 2

ManualUpdate ==
    /\ Len(status_history) < MaxRecords
    /\ \E b \in 1..Len(books) : \E st \in Statuses :
          LET new == [books[b] EXCEPT !.library_status = st]
          IN  /\ books' = [books EXCEPT ![b] = new]
              /\ status_history' =
                    log_status_change(status_history, b, books[b], new)
    /\ UNCHANGED <<emails, env, world, clock, rs, digest, norm>>

InitEdits ==
    /\ InitWith(1, {<<1>>}, {StaleLink}, {Today}, "batch")
    /\ env = [RESEND_API_KEY |-> TRUE, USER_EMAIL |-> TRUE]

StepEdits(r) ==
    \/ Begin(r)
    \/ Search(r)
    \/ UpdateOk(r)
    \/ UpdateFails(r)
    \/ Notify(r)
    \/ Delay(r)
    \/ Finish(r)

NextEdits == ManualUpdate \/ \E r \in Invocations : StepEdits(r)

SpecEdits == InitEdits /\ [][NextEdits]_vars

\* The scheduled invocation when a call may get no answer at all. Every await
\* of the handler (the select, the fetch of the search, the update, the fetch
\* of the send) is passed no timeout and no abort signal, so an invocation
\* whose call is never answered stays at that await. Steps that can be taken
\* are taken eventually.
NeverAnswered(r) ==
    /\ \/ rs[r].pc \in {"idle", "update", "notify"}
       \/ rs[r].pc = "loop" /\ rs[r].i <= Len(rs[r].batch)
    /\ rs' = [rs EXCEPT ![r] = [@ EXCEPT !.pc = "awaiting"]]
    /\ UNCHANGED <<books, status_history, emails, env, world, clock, digest, norm>>

NextAwait == Step("cron") \/ NeverAnswered("cron")

SpecAwait == Init /\ [][NextAwait]_vars /\ WF_vars(NextAwait)

-----------------------------------------------------------------------------
(* Vocabulary of the properties: the scheduled invocation and the book it  *)
(* queried last, stated from the specification and not from the handler.   *)

cron == rs["cron"]

BookIds == 1..Len(books)
BatchIds == {cron.batch[k].id : k \in 1..Len(cron.batch)}

Asked == Len(cron.queried) > 0
\* the snapshot of the book queried last, and its stored row
LastBook == cron.batch[Len(cron.queried)]
LastRow == books[LastBook.id]
\* the outcome of the book queried last has been recorded
LastDone == Asked /\ Len(cron.results) = Len(cron.queried)
LastEntry == cron.results[Len(cron.results)]
LastItems == cron.resp.items
GotItems == Asked /\ cron.resp.kind = "ok" /\ Len(LastItems) > 0

\* the row a snapshot was taken of
RowOf(snap) ==
    [title |-> snap.title, all_isbns |-> snap.all_isbns,
     release_date |-> snap.release_date, library_status |-> snap.library_status,
     overdrive_id |-> snap.overdrive_id, last_checked_at |-> snap.last_checked_at]

RecordsOf(b) == SelectSeq(status_history, LAMBDA h : h.book_id = b)
EmailsOf(b) == SelectSeq(emails, LAMBDA m : m.book_id = b)

SharesIdentifier(book, item) ==
    \E a \in 1..Len(book.all_isbns) : \E f \in 1..Len(item.formats) :
        item.formats[f] # NoIsbn /\ item.formats[f] = book.all_isbns[a]

SameNormalizedTitle(book, item) ==
    item.title # NoTitle /\ normalizeTitle(item.title) = normalizeTitle(book.title)

\* every result carries a title, as a CatalogSearchResult does
AllTitled(items) == \A k \in 1..Len(items) : items[k].title # NoTitle

NoOverlap(book, items) ==
    \A k \in 1..Len(items) :
        ~SharesIdentifier(book, items[k]) /\ ~SameNormalizedTitle(book, items[k])

\* k is the first position, in the order returned, that is in hits
IsFirstOf(k, hits) == k \in hits /\ \A j \in hits : k <= j

\* the status the specification derives from a match decision
CandidateOf(dec, items) ==
    IF dec.kind = "matched"
    THEN LET e == items[dec.idx]
         IN  IF e.isAvailable /\ e.availableCopies > 0 THEN "available_to_checkout"
             ELSE IF e.isHoldable THEN "available_to_hold"
             ELSE "not_available"
    ELSE "not_available"

-----------------------------------------------------------------------------
(* Matcher and deriver, one book against every answer *)

\* C1: when the catalog answers with a non-empty list in which no result shares
\* an identifier with the book and no result has the book's normalized title, the
\* decision is "unmatched" (never a match on the first or any other result) and
\* no result's id is put or left in overdrive_id, whatever the number and order
\* of the results.
C1_UnmatchedStoresNoLink ==
    (GotItems /\ NoOverlap(LastBook, LastItems)) =>
        /\ cron.dec.kind # "matched"
        /\ AllTitled(LastItems) => cron.dec.kind = "unmatched"
        /\ cron.overdriveId = NULL
        /\ \A k \in 1..Len(LastItems) : LastRow.overdrive_id # LastItems[k].id

C1_Witness ==
    /\ GotItems /\ NoOverlap(LastBook, LastItems)
    /\ Len(LastItems) = MaxItems
    /\ LastItems[1].isAvailable
    /\ LastBook.overdrive_id = StaleLink
    /\ LastDone /\ LastEntry.outcome = "status_changed"
    /\ LastRow.library_status = "not_available" /\ LastRow.overdrive_id = NULL

\* C5: when the book has alternate identifiers and some result carries one of
\* them, the matcher selects the first such result in the order returned, as an
\* identifier match, also when an earlier result has the book's normalized title.
C5_IdentifierMatchFirst ==
    (/\ GotItems /\ Len(LastBook.all_isbns) > 0
     /\ \E k \in 1..Len(LastItems) : SharesIdentifier(LastBook, LastItems[k])) =>
        /\ cron.dec.kind = "matched" /\ cron.dec.strategy = "isbn"
        /\ IsFirstOf(cron.dec.idx,
               {k \in 1..Len(LastItems) : SharesIdentifier(LastBook, LastItems[k])})

C5_Witness ==
    /\ GotItems /\ Len(LastItems) > 1
    /\ SameNormalizedTitle(LastBook, LastItems[1])
    /\ ~SharesIdentifier(LastBook, LastItems[1])
    /\ cron.dec.kind = "matched" /\ cron.dec.strategy = "isbn" /\ cron.dec.idx = 2
    /\ LastDone /\ LastRow.overdrive_id = LastItems[2].id

\* C6: when the book has no alternate identifiers, or no result shares one, the
\* matcher selects the first result in the order returned whose normalized title
\* equals the book's, as a normalized-title match; a title match is made only
\* when identifier matching found nothing.
C6_TitleMatchFallback ==
    /\ (/\ GotItems /\ AllTitled(LastItems)
        /\ \A k \in 1..Len(LastItems) : ~SharesIdentifier(LastBook, LastItems[k])
        /\ \E k \in 1..Len(LastItems) : SameNormalizedTitle(LastBook, LastItems[k])) =>
            /\ cron.dec.kind = "matched" /\ cron.dec.strategy = "title"
            /\ IsFirstOf(cron.dec.idx,
                   {k \in 1..Len(LastItems) : SameNormalizedTitle(LastBook, LastItems[k])})
    /\ (GotItems /\ cron.dec.strategy = "title") =>
            \A k \in 1..Len(LastItems) : ~SharesIdentifier(LastBook, LastItems[k])

C6_Witness ==
    /\ GotItems /\ Len(LastItems) > 1
    /\ Len(LastBook.all_isbns) > 0
    /\ LastItems[1].formats # <<>>
    /\ LastItems[2].title # LastBook.title
    /\ cron.dec.kind = "matched" /\ cron.dec.strategy = "title" /\ cron.dec.idx = 2
    /\ LastDone /\ LastRow.overdrive_id = LastItems[2].id

\* C7: the candidate status depends on the match decision alone: for a matched
\* entry available_to_checkout if it is available with more than zero copies,
\* else available_to_hold if it is holdable, else not_available; not_available
\* when unmatched. The book's current status has no influence: the run takes the
\* no-change path exactly when the candidate equals the status it read.
C7_CandidateFromDecision ==
    (GotItems /\ cron.dec.kind \in {"matched", "unmatched"}) =>
        LET cand == CandidateOf(cron.dec, LastItems)
        IN  /\ cron.branch # "none" => cron.newStatus = cand
            /\ cron.branch \in {"none", "refresh"} <=> cand = LastBook.library_status
            /\ cron.branch = "none" => cron.dec.kind = "unmatched"

C7_Witness ==
    /\ GotItems /\ cron.dec.kind = "matched"
    /\ LastItems[cron.dec.idx].isAvailable
    /\ LastItems[cron.dec.idx].availableCopies = 0
    /\ ~LastItems[cron.dec.idx].isHoldable
    /\ LastBook.library_status = "on_hold"
    /\ LastDone /\ LastEntry.outcome = "status_changed"
    /\ LastRow.library_status = "not_available"

-----------------------------------------------------------------------------
(* The batch *)

InBatch(b) == b \in BatchIds
Snap(b) == CHOOSE x \in {cron.batch[k] : k \in 1..Len(cron.batch)} : x.id = b
EntriesOf(b) == SelectSeq(cron.results, LAMBDA e : e.book = b)

\* C2: the status-history records of a book are as many as the changes of its
\* stored status: a persisted change appends exactly one record, from the status
\* stored before the write to the status written, and a book whose outcome is
\* unchanged, not-found, search-failed, update-failed or error gets none.
C2_OneRecordPerStatusChange ==
    \A b \in BookIds :
        LET recs == RecordsOf(b)
        IN  /\ ~InBatch(b) => recs = <<>>
            /\ InBatch(b) =>
                 /\ Len(recs) =
                      IF books[b].library_status # Snap(b).library_status THEN 1 ELSE 0
                 /\ recs # <<>> =>
                      /\ recs[1].old_status = Snap(b).library_status
                      /\ recs[1].new_status = books[b].library_status
                 /\ \A k \in 1..Len(EntriesOf(b)) :
                      LET e == EntriesOf(b)[k]
                      IN  IF e.outcome = "status_changed"
                          THEN /\ Len(recs) = 1
                               /\ recs[1].old_status = e.oldStatus
                               /\ recs[1].new_status = e.newStatus
                          ELSE recs = <<>>

\* one book changed and logged once, another rewritten without a change
C2_Witness ==
    /\ cron.pc = "done"
    /\ Len(status_history) = 1
    /\ \E k \in 1..Len(cron.results) : cron.results[k].outcome = "status_changed"
    /\ \E k \in 1..Len(cron.results) :
          /\ cron.results[k].outcome = "no_change"
          /\ books[cron.results[k].book].last_checked_at # NULL

ClaimEligible(row) ==
    /\ row.release_date <= Today
    /\ row.library_status \in {"not_available", "available_to_hold", "on_hold"}

C3_Batch ==
    cron.pc \notin {"idle", "failed"} =>
        /\ \A k \in 1..Len(cron.batch) : ClaimEligible(cron.batch[k])
        /\ \A b \in BookIds \ BatchIds : ~ClaimEligible(books[b])
        /\ \A k \in 1..Len(cron.queried) : InBatch(cron.queried[k])
        /\ cron.pc = "done" => \A b \in BatchIds :
              \E k \in 1..Len(cron.queried) : cron.queried[k] = b

C3_Step ==
    /\ \A b \in BookIds : books'[b] # books[b] => ClaimEligible(books[b])
    /\ rs'["cron"].queried # cron.queried =>
          ClaimEligible(books[rs'["cron"].queried[Len(rs'["cron"].queried)]])

\* C3: the run queries the catalog for, and may write to, a book if and only if
\* at the eligibility query its release date is <= today and its status is
\* not_available, available_to_hold or on_hold. No step of the run changes any
\* field of another book, its checked-at timestamp included.
C3_OnlyEligibleBooks == [](C3_Batch) /\ [][C3_Step]_vars

C3_Witness ==
    /\ cron.pc = "done"
    /\ \E b \in BatchIds :
          books[b].last_checked_at # NULL /\ books[b].release_date = Today
    /\ \E b \in BookIds \ BatchIds :
          /\ books[b].library_status = "available_to_checkout"
          /\ books[b].last_checked_at = NULL
    /\ Len(cron.queried) = 1

Failure(e) == e.outcome \in {"search_failed", "error", "update_failed"}

\* the book queried last was processed as its own answer demands
LastAsItsAnswerDemands ==
    LET same == LastRow = RowOf(LastBook)
        cand == CandidateOf(cron.dec, LastItems)
    IN  IF cron.resp.kind = "throw" THEN LastEntry.outcome = "error" /\ same
        ELSE IF cron.resp.kind = "not_ok"
        THEN LastEntry.outcome = "search_failed" /\ same
        ELSE IF Len(LastItems) = 0
        THEN LastEntry.outcome = "not_found_in_overdrive" /\ same
        ELSE IF cron.dec.kind = "throw" THEN LastEntry.outcome = "error" /\ same
        ELSE IF cand = LastBook.library_status
        THEN /\ LastEntry.outcome = "no_change"
             /\ LastRow.library_status = LastBook.library_status
        ELSE \/ LastEntry.outcome = "update_failed" /\ same
             \/ /\ LastEntry.outcome = "status_changed"
                /\ LastEntry.oldStatus = LastBook.library_status
                /\ LastEntry.newStatus = cand
                /\ LastRow.library_status = cand
                /\ LastRow.overdrive_id =
                      IF cron.dec.kind = "matched"
                      THEN LastItems[cron.dec.idx].id ELSE NULL

\* C4: whatever failed for an earlier book of the batch (a non-success answer,
\* an exception while querying or parsing, a failed update), every later book is
\* still queried, matched and updated as its own answer demands, and the run
\* does not abort: it ends with every book of the batch queried and reported.
C4_FailureIsolation ==
    /\ cron.pc = "failed" => cron.queried = <<>>
    /\ cron.pc = "done" =>
          /\ Len(cron.results) = Len(cron.batch)
          /\ Len(cron.queried) = Len(cron.batch)
          /\ \A k \in 1..Len(cron.batch) :
                cron.results[k].book = cron.batch[k].id
                    /\ cron.queried[k] = cron.batch[k].id
    /\ (LastDone /\ \E k \in 1..(Len(cron.results) - 1) : Failure(cron.results[k]))
          => LastAsItsAnswerDemands

C4_Witness ==
    /\ cron.pc = "done"
    /\ Len(cron.results) > 1
    /\ cron.results[1].outcome = "search_failed"
    /\ LastEntry.outcome = "status_changed"
    /\ LastRow.library_status = LastEntry.newStatus
    /\ LastRow.library_status # LastBook.library_status

C9_UnchangedRefreshesCheckedAt ==
    (/\ GotItems /\ LastDone
     /\ cron.dec.kind \in {"matched", "unmatched"}
     /\ CandidateOf(cron.dec, LastItems) = LastBook.library_status
     /\ cron.updateError # "yes") =>
        /\ LastRow.library_status = LastBook.library_status
        /\ LastRow.last_checked_at > LastBook.last_checked_at

\* C10: a change notification for a book is dispatched exactly once if and only
\* if its status change was persisted and both the API key and the recipient are
\* configured; it follows the persist, carries the old and the new status of
\* that change, and no book with another outcome is notified about.
C10_NotifyOncePerPersistedChange ==
    \A b \in BookIds :
        LET mails == EmailsOf(b)
            changed == \E k \in 1..Len(cron.results) :
                          /\ cron.results[k].book = b
                          /\ cron.results[k].outcome = "status_changed"
        IN  /\ Len(mails) =
                 IF changed /\ env.RESEND_API_KEY /\ env.USER_EMAIL THEN 1 ELSE 0
            /\ mails # <<>> =>
                 /\ InBatch(b)
                 /\ mails[1].oldStatus = Snap(b).library_status
                 /\ mails[1].newStatus = books[b].library_status
                 /\ mails[1].newStatus # mails[1].oldStatus
                 /\ Len(RecordsOf(b)) = 1
                 /\ RecordsOf(b)[1].old_status = mails[1].oldStatus
                 /\ RecordsOf(b)[1].new_status = mails[1].newStatus
            /\ changed =>
                 /\ books[b].library_status # Snap(b).library_status
                 /\ books[b].last_checked_at # NULL

C10_Witness ==
    /\ cron.pc = "done"
    /\ Len(emails) = 1
    /\ Len(cron.results) > 1
    /\ cron.results[1].outcome = "update_failed"
    /\ cron.results[2].outcome = "status_changed"
    /\ emails[1].book_id = cron.results[2].book

-----------------------------------------------------------------------------
(* Failures inside the batch *)

\* the notification sends that did not get through (non-success answer or
\* exception, both swallowed by sendStatusChangeEmail)
Undelivered == {k \in 1..Len(emails) : ~emails[k].delivered}

\* C11: a change notification that fails changes nothing else: the book keeps
\* the status, link and checked-at that were just written, its outcome in the
\* report is still status-changed(old, new), and the books after it are
\* processed as their own answers demand, up to the end of the run.
C11_NotifyFailureChangesNothing ==
    /\ \A m \in Undelivered :
          LET b == emails[m].book_id
          IN  /\ books[b].library_status = emails[m].newStatus
              /\ books[b].last_checked_at # NULL
              /\ \A k \in 1..Len(cron.batch) : cron.batch[k].id = b =>
                    /\ books[b].overdrive_id # cron.batch[k].overdrive_id
                    /\ Len(cron.results) >= k =>
                          /\ cron.results[k].outcome = "status_changed"
                          /\ cron.results[k].oldStatus = emails[m].oldStatus
                          /\ cron.results[k].newStatus = emails[m].newStatus
    /\ (Undelivered # {} /\ LastDone) => LastAsItsAnswerDemands
    /\ (Undelivered # {} /\ cron.pc = "done") =>
          /\ cron.http = 200
          /\ Len(cron.results) = Len(cron.batch)

C11_Witness ==
    /\ cron.pc = "done"
    /\ Len(cron.results) > 1
    /\ Len(emails) = 1 /\ ~emails[1].delivered
    /\ emails[1].book_id = cron.results[1].book
    /\ cron.results[1].outcome = "status_changed"
    /\ cron.results[2].outcome = "no_change"
    /\ books[cron.results[2].book].last_checked_at # NULL

\* C12 (as claimed): whenever the update of a book fails, in the status-change
\* path or in the unchanged path that refreshes checked-at and link, the book's
\* outcome in the report is update-failed, never status-changed or unchanged,
\* and the batch goes on with the next book.
C12_UpdateFailureReported ==
    /\ (LastDone /\ cron.updateError = "yes") =>
          /\ LastEntry.book = LastBook.id
          /\ LastEntry.outcome = "update_failed"
    /\ cron.pc = "done" => Len(cron.results) = Len(cron.batch)

\* the run has answered with the error response / with a report
WholeRunFailure == cron.http = 500
SuccessReport == cron.http = 200

C13_Outcome ==
    /\ WholeRunFailure <=> cron.pc = "failed"
    /\ SuccessReport <=> cron.pc = "done"
    /\ WholeRunFailure =>
          cron.batch = <<>> /\ cron.queried = <<>> /\ cron.results = <<>>
    /\ SuccessReport => Len(cron.results) = Len(cron.batch)

\* a step ends the run in failure only from the eligibility query
C13_Step == rs'["cron"].http = 500 => cron.pc = "idle"

\* C13: the run ends in a whole-run failure (the error response) if and only if
\* the eligibility query fails; once that query has answered, whatever per-book
\* failures occur (failed searches, exceptions, failed updates, failed sends),
\* the run never fails as a whole and its response is the success report with
\* one entry per book of the batch.
C13_FatalOnlyAtEligibilityQuery == [](C13_Outcome) /\ [][C13_Step]_vars

C13_Witness ==
    /\ SuccessReport
    /\ Len(cron.results) > 1
    /\ cron.results[1].outcome = "update_failed"
    /\ cron.results[2].outcome = "error"

-----------------------------------------------------------------------------
(* Statuses *)

\* C14 (as claimed): after any successful run, every book whose release date
\* is <= that run's current date has a status other than not_released: a book
\* created as not_released is moved to a released status by the first
\* successful run after its release date has passed.
C14_ReleasedAfterSuccessfulRun ==
    SuccessReport =>
        \A b \in BookIds :
            books[b].release_date <= Today =>
                books[b].library_status # "not_released"

\* the statuses the reconciliation may assign
CatalogStatuses == {"not_available", "available_to_hold", "available_to_checkout"}

C15_Written ==
    /\ \A k \in 1..Len(status_history) :
          status_history[k].new_status \in CatalogStatuses
    /\ \A k \in 1..Len(cron.results) :
          cron.results[k].outcome = "status_changed" =>
              cron.results[k].newStatus \in CatalogStatuses
    /\ \A k \in 1..Len(emails) : emails[k].newStatus \in CatalogStatuses

C15_Step ==
    \A b \in BookIds :
        books'[b].library_status # books[b].library_status =>
            books'[b].library_status \in CatalogStatuses

\* C15: every status the run writes to a book is not_available,
\* available_to_hold or available_to_checkout: for no book and no catalog answer
\* does a step of the run assign on_hold, checked_out or not_released, and so
\* no such status is logged, reported or notified as the new status.
C15_WritesOnlyCatalogStatuses == [](C15_Written) /\ [][C15_Step]_vars

\* a hold the user placed is overwritten by what the catalog says
C15_Witness ==
    /\ LastDone /\ LastEntry.outcome = "status_changed"
    /\ LastBook.library_status = "on_hold"
    /\ LastRow.library_status = "available_to_hold"
    /\ cron.dec.kind = "matched"
    /\ LastItems[cron.dec.idx].isHoldable

\* the tag of status_history.source that stands for the catalog check
CatalogCheckSource == "overdrive_api"

\* C16 (as claimed): every status-history record produced by a status change
\* that the run persisted carries the source tag of the catalog check, which
\* tells it apart from manual and system changes.
C16_RecordsTaggedCatalogCheck ==
    \A k \in 1..Len(status_history) :
        /\ status_history[k].source = CatalogCheckSource
        /\ status_history[k].source \notin {"manual", "system"}

-----------------------------------------------------------------------------
(* Two runs in succession *)

\* invocation r is the second run: the other one has answered with its report
IsSecondRun(r) ==
    rs[r].pc # "idle" /\ \E q \in Invocations \ {r} : rs[q].pc = "done"

C17_Step ==
    \A r \in Invocations :
        (IsSecondRun(r) /\ rs'[r] # rs[r]) =>
            /\ \A b \in BookIds :
                  /\ books'[b].library_status = books[b].library_status
                  /\ books'[b].overdrive_id = books[b].overdrive_id
            /\ status_history' = status_history
            /\ emails' = emails

\* C17: the reconciliation is idempotent: when it is run twice in succession
\* with identical catalog responses, no failures and no other writes in between,
\* no step of the second run changes a book's status or external link, appends
\* a status-history record or dispatches a notification.
C17_SecondRunChangesNothing == [][C17_Step]_vars

\* the first run changed and notified a book that the second run checked again
C17_Witness ==
    /\ \A r \in Invocations : rs[r].pc = "done"
    /\ status_history # <<>> /\ emails # <<>>
    /\ \E k \in 1..Len(cron.results) : \E j \in 1..Len(rs["manual"].results) :
          /\ cron.results[k].outcome = "status_changed"
          /\ rs["manual"].results[j].book = cron.results[k].book
          /\ rs["manual"].results[j].outcome = "no_change"
          /\ books[cron.results[k].book].last_checked_at > 1

-----------------------------------------------------------------------------
(* The weekly digest *)

\* the books releasing within [today, today + 7 days]
UpcomingIds ==
    {b \in BookIds :
        books[b].release_date >= Today /\ books[b].release_date <= Today + Week}

\* the books that still exist and have a status-change record in the window
ChangedIdsOf(d) ==
    {b \in d.changedBooks :
        \E k \in 1..Len(status_history) :
            /\ status_history[k].book_id = b
            /\ status_history[k].changed_at >= oneWeekAgo(d.today)}

BothEmpty(d) == UpcomingIds = {} /\ ChangedIdsOf(d) = {}

ConfigMissing == ~env.RESEND_API_KEY \/ ~env.USER_EMAIL

C18_Sends ==
    /\ Len(digest.sent) <= 1
    /\ digest.skipped =>
          /\ BothEmpty(digest)
          /\ digest.sent = <<>> /\ digest.pc = "done" /\ digest.http = 200
    /\ digest.pc = "send" => ~BothEmpty(digest) /\ digest.sent = <<>>
    /\ (digest.pc = "done" /\ ~digest.skipped) => Len(digest.sent) = 1
    /\ digest.sent # <<>> =>
          LET payload == digest.sent[1].payload
          IN  /\ ~BothEmpty(digest)
              /\ {payload.upcoming[k] : k \in 1..Len(payload.upcoming)} = UpcomingIds
              /\ {payload.changes[k].book_id : k \in 1..Len(payload.changes)}
                    = ChangedIdsOf(digest)

C18_Step ==
    /\ (digest.pc = "books" /\ digest'.pc # "failed" /\ digest' # digest) =>
          /\ digest'.skipped <=> BothEmpty(digest')
          /\ ~digest'.skipped <=> digest'.pc = "send"
    /\ (digest.pc = "send" /\ digest' # digest) => Len(digest'.sent) = 1

\* C18: the digest sends nothing and reports "skipped" when both the set of
\* upcoming releases and the set of deduplicated, joined status changes are
\* empty; once both sets are gathered and one is not empty it attempts exactly
\* one send, which carries both sets in one payload.
C18_SkipOrSendOnce == [](C18_Sends) /\ [][C18_Step]_vars

C18_Witness ==
    /\ digest.pc = "done" /\ ~digest.skipped
    /\ Len(digest.sent) = 1
    /\ UpcomingIds = {}
    /\ Cardinality(ChangedIdsOf(digest)) = 1
    /\ Len(digest.statusChanges) > 1

\* C20: when the API key or the recipient of the digest is missing, the digest
\* fails at its start with the error response: it attempts no send and performs
\* no record-store query before failing.
C20_MissingConfigFailsAtStart ==
    ConfigMissing =>
        /\ digest.pc \in {"idle", "failed"}
        /\ digest.pc = "failed" => digest.http = 500
        /\ digest.queries = 0
        /\ digest.sent = <<>>
        /\ ~digest.skipped

C20_Witness ==
    /\ env.RESEND_API_KEY /\ ~env.USER_EMAIL
    /\ digest.pc = "failed" /\ digest.http = 500
    /\ UpcomingIds # {}
    /\ status_history # <<>>

-----------------------------------------------------------------------------
(* The deduplication of the digest *)

Returned == digest.statusChanges
Shown == digest.statusChangesWithBooks
Joined == digest.pc \in {"send", "done"} \/ digest.sent # <<>>

RowsOf(b) == {k \in 1..Len(Returned) : Returned[k].book_id = b}
ShownOf(b) == {e \in 1..Len(Shown) : Shown[e].book_id = b}

\* the rows came in the order the query asks for
IsDescending(rows) ==
    \A i \in 1..Len(rows) : \A j \in (i + 1)..Len(rows) :
        rows[i].changed_at >= rows[j].changed_at

\* what the claim says without its choice of the entry
C19_OnePerExistingBook ==
    \A b \in BookIds :
        /\ Cardinality(ShownOf(b)) <= 1
        /\ ShownOf(b) # {} <=> (b \in digest.changedBooks /\ RowsOf(b) # {})
        /\ \A e \in ShownOf(b) : \E k \in RowsOf(b) : Shown[e] = Returned[k]
        /\ digest.sent # <<>> =>
              \A e \in ShownOf(b) :
                  \E c \in 1..Len(digest.sent[1].payload.changes) :
                      LET line == digest.sent[1].payload.changes[c]
                      IN  /\ line.book_id = b
                          /\ line.old_status = Shown[e].old_status
                          /\ line.new_status = Shown[e].new_status

-----------------------------------------------------------------------------
(* The send of the digest *)

\* the single send of the digest failed: a non-success answer or an exception
DigestSendFailed ==
    /\ digest.sent # <<>>
    /\ digest.sent[Len(digest.sent)].outcome \in {"not_ok", "throw"}

\* C21 (as claimed): a failure of the digest's send is logged and swallowed:
\* the digest does not end in a run failure, no error response is given to the
\* trigger.
C21_DigestSendFailureSwallowed ==
    DigestSendFailed => digest.pc # "failed" /\ digest.http # 500

-----------------------------------------------------------------------------
(* The title key *)

\* normalize(s), normalize(normalize(s)) and the key of the other title
KeyOf == norm.key
KeyOfKey == norm.again
KeyOfOther == norm.otherKey
NormalizedTwice == norm.pc \in {"twice", "compared"}
Compared == norm.pc = "compared"

\* C22 (as claimed): normalizing a normalized title changes nothing:
\* normalize(normalize(s)) = normalize(s) for every string s.
C22_NormalizeIdempotent ==
    NormalizedTwice => KeyOfKey = KeyOf

\* C23 (as claimed): two titles that differ only by a leading article in any
\* letter case, only in letter case, or only by punctuation marks left out get
\* the same key.
C23_EqualKeysForVariants ==
    Compared => KeyOfOther = KeyOf

-----------------------------------------------------------------------------
(* Overlapping invocations *)

\* the entries of invocation r that report a change of book b from old to new
ChangesReported(r, b, old, new) ==
    {k \in 1..Len(rs[r].results) :
        /\ rs[r].results[k].book = b
        /\ rs[r].results[k].outcome = "status_changed"
        /\ rs[r].results[k].oldStatus = old
        /\ rs[r].results[k].newStatus = new}

\* both invocations saw book b with the status old and both report its change
\* to new
BothChanged(b, old, new) ==
    \A r \in Invocations :
        /\ \E k \in 1..Len(rs[r].batch) :
              rs[r].batch[k].id = b /\ rs[r].batch[k].library_status = old
        /\ ChangesReported(r, b, old, new) # {}

\* the notifications dispatched for the change of book b from old to new
NotificationsOf(b, old, new) ==
    {k \in 1..Len(emails) :
        /\ emails[k].book_id = b
        /\ emails[k].oldStatus = old
        /\ emails[k].newStatus = new}

\* the audit records of the change of book b from old to new
TransitionsOf(b, old, new) ==
    {k \in 1..Len(status_history) :
        /\ status_history[k].book_id = b
        /\ status_history[k].old_status = old
        /\ status_history[k].new_status = new}

\* the address and the key of the notification service are both set
CanNotify == env.RESEND_API_KEY /\ env.USER_EMAIL

\* C24: an invocation can start whatever the other one is doing; and when two
\* invocations that both read the same stale status of a book both report its
\* change, the new status is stored, the change is recorded once and, where
\* notifications are configured, notified twice.
C24_OverlapNotifiesTwice ==
    /\ \A r \in Invocations : rs[r].pc = "idle" => ENABLED Start(r)
    /\ \A b \in BookIds : \A old, new \in Statuses :
          BothChanged(b, old, new) =>
              /\ books[b].library_status = new
              /\ Cardinality(TransitionsOf(b, old, new)) = 1
              /\ CanNotify => Cardinality(NotificationsOf(b, old, new)) = 2

C24_Witness ==
    \E b \in BookIds : \E old, new \in Statuses :
        /\ BothChanged(b, old, new)
        /\ Cardinality(TransitionsOf(b, old, new)) = 1
        /\ Cardinality(NotificationsOf(b, old, new)) = 2
        /\ \A r \in Invocations : rs[r].pc = "done"

-----------------------------------------------------------------------------
(* Calls that are never answered *)

\* the invocation gave its response: the report or the run failure
Responded == cron.pc \in {"done", "failed"}

\* C25 (as claimed): no call blocks the invocation for ever: it gives its
\* response eventually.
C25_RunEventuallyResponds == <>Responded

-----------------------------------------------------------------------------
(* One book after another *)

\* how many books of the batch the run has queried the catalog for, and how
\* many it has recorded the outcome of
Begun == Len(cron.queried)
Recorded == Len(cron.results)

\* nothing of this run has reached the book of snapshot snap
Untouched(snap) ==
    /\ books[snap.id] = RowOf(snap)
    /\ RecordsOf(snap.id) = <<>>
    /\ EmailsOf(snap.id) = <<>>
    /\ \A k \in 1..Begun : cron.queried[k] # snap.id

C26_Order ==
    cron.pc \notin {"idle", "failed"} =>
        /\ Begun <= Len(cron.batch)
        /\ Recorded \in {Begun, Begun - 1}
        /\ \A k \in 1..Begun : cron.queried[k] = cron.batch[k].id
        /\ \A k \in 1..Recorded : cron.results[k].book = cron.batch[k].id
        /\ \A k \in (Begun + 1)..Len(cron.batch) : Untouched(cron.batch[k])

\* a step that queries starts the next book of the batch, once the outcome of
\* the previous one is recorded; a step that writes a row, a record or a
\* notification does so for the book in progress
C26_Step ==
    /\ rs'["cron"].queried # cron.queried =>
          /\ Recorded = Begun
          /\ rs'["cron"].queried = Append(cron.queried, cron.batch[Begun + 1].id)
    /\ \A b \in BookIds :
          (\/ books'[b] # books[b]
           \/ RecordsOf(b)' # RecordsOf(b)
           \/ EmailsOf(b)' # EmailsOf(b)) =>
              Asked /\ b = LastBook.id /\ Recorded = Begun - 1

\* C26: books are processed one after another in the order the eligibility
\* query returned them: at every point of a run no book after the one in
\* progress has been queried for, written, recorded or notified about, and
\* nothing changes any more for a book before it.
C26_OneBookAfterAnother == [](C26_Order) /\ [][C26_Step]_vars

C26_Witness ==
    /\ cron.pc = "delay" /\ Len(cron.batch) = 2 /\ Begun = 1 /\ Recorded = 1
    /\ cron.results[1].outcome = "status_changed"
    /\ RecordsOf(cron.batch[1].id) # <<>>
    /\ EmailsOf(cron.batch[1].id) # <<>>
    /\ Untouched(cron.batch[2])

-----------------------------------------------------------------------------
(* Transient failures and the next run *)

FirstRun == rs["cron"]
NextRun == rs["manual"]
BothRunsDone == FirstRun.pc = "done" /\ NextRun.pc = "done"

\* the catalog query of the first run for book b failed
QueryFailedFirst(b) ==
    \E k \in 1..Len(FirstRun.results) :
        /\ FirstRun.results[k].book = b
        /\ FirstRun.results[k].outcome \in {"search_failed", "error"}

\* the first run persisted a change of book b and the send of its notification
\* failed
SendFailedFirst(b) ==
    /\ \E k \in 1..Len(FirstRun.results) :
          /\ FirstRun.results[k].book = b
          /\ FirstRun.results[k].outcome = "status_changed"
    /\ EmailsOf(b) # <<>>
    /\ ~EmailsOf(b)[1].delivered

RequeriedNext(b) == \E k \in 1..Len(NextRun.queried) : NextRun.queried[k] = b
RedispatchedNext(b) == Len(EmailsOf(b)) > 1

\* C27 (as claimed): the next run queries the catalog again for every book
\* whose query failed in the first run, and dispatches again every change
\* notification whose send failed in the first run.
C27_NextRunRetries ==
    BothRunsDone =>
        \A b \in BookIds :
            /\ QueryFailedFirst(b) => RequeriedNext(b)
            /\ SendFailedFirst(b) => RedispatchedNext(b)

-----------------------------------------------------------------------------
(* The delay between catalog queries *)

\* the delays the run has waited: the clock advances by one at each delay
Delays == clock - 1

\* C28 (as claimed): between any two consecutive catalog queries of a run the
\* delay is waited, whatever the outcome of the earlier book: a run that has
\* made n queries has waited at least n - 1 delays.
C28_DelayBetweenQueries ==
    Begun <= Delays + 1

-----------------------------------------------------------------------------
(* One query and one entry per book *)

QueriesOf(b) == {k \in 1..Begun : cron.queried[k] = b}

\* book b was eligible when the run made its eligibility query: as its row was
\* read if the run selected it, as its row stands (no step touches it) if not
EligibleAtSelect(b) ==
    IF InBatch(b) THEN ClaimEligible(Snap(b)) ELSE ClaimEligible(books[b])

EligibleCount == Cardinality({b \in BookIds : EligibleAtSelect(b)})

\* C29: in one run a book is never queried twice and never reported twice; when
\* the run has answered, every eligible book has exactly one catalog query and
\* exactly one entry of the report, no other book has any, and the report's
\* checked count is the number of eligible books and the number of entries.
C29_OneQueryOneEntry ==
    /\ \A b \in BookIds :
          Cardinality(QueriesOf(b)) <= 1 /\ Len(EntriesOf(b)) <= 1
    /\ cron.pc = "done" =>
          /\ \A b \in BookIds :
                /\ Cardinality(QueriesOf(b)) = IF EligibleAtSelect(b) THEN 1 ELSE 0
                /\ Len(EntriesOf(b)) = IF EligibleAtSelect(b) THEN 1 ELSE 0
          /\ Report(cron).checked = EligibleCount
          /\ Report(cron).checked = Len(Report(cron).results)

C29_Witness ==
    /\ cron.pc = "done"
    /\ Report(cron).checked >= 2
    /\ Report(cron).checked = EligibleCount
    /\ cron.results[1].outcome = "search_failed"
    /\ cron.results[2].outcome = "status_changed"

-----------------------------------------------------------------------------
(* The write of a change *)

\* the link the specification stores with a match decision: the id of the
\* entry selected, nothing when unmatched
LinkOf(dec, items) ==
    IF dec.kind = "matched" THEN items[dec.idx].id ELSE NULL

StatusChangedAt(b) == books'[b].library_status # books[b].library_status

\* a step that changes the status of a book changes that one row only, and sets
\* at once the candidate status, the link of the decision and the checked-at
\* timestamp, leaving the other fields as they are
C30_Step ==
    \A b \in BookIds :
        StatusChangedAt(b) =>
            /\ Asked /\ b = LastBook.id
            /\ \A o \in BookIds \ {b} : books'[o] = books[o]
            /\ books'[b] =
                  [books[b] EXCEPT
                      !.library_status = CandidateOf(cron.dec, LastItems),
                      !.overdrive_id = LinkOf(cron.dec, LastItems),
                      !.last_checked_at = clock]

\* a changed status is never stored with the link read at the eligibility
\* query, unless both are empty, nor with the checked-at read then
C30_Stored ==
    \A b \in BatchIds :
        books[b].library_status # Snap(b).library_status =>
            /\ books[b].overdrive_id # NULL =>
                  books[b].overdrive_id # Snap(b).overdrive_id
            /\ books[b].last_checked_at # Snap(b).last_checked_at

\* C30: every status-changing write is a single update of one book that sets
\* together the candidate status, the id of the matched entry as link (nothing
\* when unmatched) and checked-at = now; the new status is never stored with
\* the previous link, and the link stored is the id of the entry selected.
C30_AtomicWrite == [](C30_Stored) /\ [][C30_Step]_vars

C30_Witness ==
    /\ LastDone /\ LastEntry.outcome = "status_changed"
    /\ LastBook.overdrive_id = StaleLink
    /\ cron.dec.kind = "matched" /\ cron.dec.idx = 2
    /\ LastRow.overdrive_id = LastItems[2].id
    /\ LastRow.library_status = "available_to_checkout"
    /\ LastRow.last_checked_at = clock

-----------------------------------------------------------------------------
(* The characters of the title key *)

Normalized == norm.pc \in {"once", "twice", "compared"}

\* letters and digits, as the specification of normalize counts them
IsAlnum(c) == c \in LowerLetters \cup UpperLetters \cup Digits
AlnumOf(s) == SelectSeq(s, IsAlnum)
LowerOf(s) == [k \in 1..Len(s) |-> IF s[k] \in UpperLetters
                                   THEN CHOOSE c \in LowerLetters : UpperOf[c] = s[k]
                                   ELSE s[k]]

\* only lowercase letters, digits and single spaces, none at either end
CleanKey(k) ==
    /\ \A i \in 1..Len(k) : k[i] \in LowerLetters \cup Digits \cup {" "}
    /\ \A i \in 1..(Len(k) - 1) : ~(k[i] = " " /\ k[i + 1] = " ")
    /\ k # <<>> => k[1] # " " /\ k[Len(k)] # " "

\* the letters and digits of k are those of t in lowercase, all of them or all
\* but those of one leading article
KeepsAlnum(t, k) ==
    \/ AlnumOf(k) = LowerOf(AlnumOf(t))
    \/ \E a \in ArticleWords : a \o AlnumOf(k) = LowerOf(AlnumOf(t))

\* C31 (as claimed): the key of every title consists only of lowercase letters,
\* digits and single spaces with none at either end (every other character,
\* the underscore included, is removed), and keeps every letter and digit of
\* the title but those of one leading article.
C31_KeyOnlyLettersDigitsSpaces ==
    Normalized => CleanKey(KeyOf) /\ KeepsAlnum(norm.title, KeyOf)

-----------------------------------------------------------------------------
(* A book on hold *)

\* the run read the book it queried last at on_hold and has recorded its outcome
HoldProcessed == LastDone /\ LastBook.library_status = "on_hold"

\* C32: a book read at on_hold whose query returned a non-empty list and whose
\* update did not fail has on_hold replaced by the candidate status
\* (available_to_checkout for a matched entry available with copies,
\* available_to_hold for a matched entry only holdable, not_available otherwise,
\* unmatched included); on_hold is still stored after the book was processed
\* only when the query failed, returned no results, or the update failed.
C32_HoldReconciled ==
    HoldProcessed =>
        /\ (GotItems /\ LastEntry.outcome # "update_failed") =>
              /\ LastRow.library_status = CandidateOf(cron.dec, LastItems)
              /\ LastRow.library_status # "on_hold"
              /\ LastEntry.outcome = "status_changed"
        /\ LastRow.library_status = "on_hold" =>
              \/ LastEntry.outcome \in {"search_failed", "error"}
                    /\ cron.resp.kind \in {"not_ok", "throw"}
              \/ LastEntry.outcome = "not_found_in_overdrive"
                    /\ cron.resp.kind = "ok" /\ Len(LastItems) = 0
              \/ LastEntry.outcome = "update_failed"

C32_Witness ==
    /\ HoldProcessed /\ GotItems
    /\ cron.dec.kind = "matched"
    /\ LastItems[cron.dec.idx].isAvailable
    /\ LastItems[cron.dec.idx].availableCopies > 0
    /\ LastRow.library_status = "available_to_checkout"

-----------------------------------------------------------------------------
(* The history of a book as a chain *)

IsChain(recs, stored) ==
    /\ \A k \in 1..Len(recs) : recs[k].old_status # recs[k].new_status
    /\ \A k \in 2..Len(recs) : recs[k].old_status = recs[k - 1].new_status
    /\ recs # <<>> => recs[Len(recs)].new_status = stored

\* C33: after any sequence of catalog checks and manual status updates the
\* status-history records of each book, in the order inserted, form a chain:
\* old and new status of a record differ, the old status of a record is the new
\* status of the record before it, and the new status of the last record is the
\* status stored for the book.
C33_HistoryIsChain ==
    \A b \in BookIds : IsChain(RecordsOf(b), books[b].library_status)

C33_Witness ==
    \E b \in BookIds :
        /\ Len(RecordsOf(b)) = 2
        /\ RecordsOf(b)[1].new_status = "on_hold"
        /\ RecordsOf(b)[2].new_status = "available_to_checkout"
        /\ \E r \in Invocations :
              /\ rs[r].pc = "done" /\ Len(rs[r].results) = 1
              /\ rs[r].results[1].outcome = "status_changed"
              /\ rs[r].results[1].oldStatus = "on_hold"

-----------------------------------------------------------------------------
(* A manual edit during a run *)

\* invocation r is about to write the book it is processing
Writing(r) == rs[r].pc = "update"
BookOf(r) == rs[r].batch[rs[r].i]
\* the update of invocation r has answered without an error
HasWritten(r) == Writing(r) /\ rs'[r].pc # "update" /\ rs'[r].updateError = "no"

\* the decision to change the status was taken against the status read at the
\* eligibility query
C34_Compared ==
    \A r \in Invocations :
        Writing(r) =>
            (rs[r].branch = "refresh" <=> rs[r].newStatus = BookOf(r).library_status)

\* the write changes the row of that id whatever status is stored in it by now
C34_Step ==
    \A r \in Invocations :
        HasWritten(r) =>
            LET id == BookOf(r).id
            IN  books'[id] =
                   [books[id] EXCEPT
                       !.library_status = IF rs[r].branch = "refresh"
                                          THEN @ ELSE rs[r].newStatus,
                       !.overdrive_id = rs[r].overdriveId,
                       !.last_checked_at = clock]

\* C34: the run's write to a book is keyed on the book id only and its
\* candidate was compared with the status read at the eligibility query: the
\* write goes through whatever status is stored at write time, so a status set
\* by hand after the eligibility query, checked_out included, is overwritten
\* with the status derived from the stale read.
C34_StaleReadOverwritesManualEdit == [](C34_Compared) /\ [][C34_Step]_vars

C34_Witness ==
    \E r \in Invocations :
        /\ rs[r].pc = "notify"
        /\ BookOf(r).library_status # "checked_out"
        /\ Len(status_history) = 2
        /\ status_history[1].new_status = "checked_out"
        /\ status_history[2].old_status = "checked_out"
        /\ status_history[2].new_status = rs[r].newStatus
        /\ books[BookOf(r).id].library_status = rs[r].newStatus

====
